---- MODULE Spec2Model ----
(***************************************************************************)
(* The XLM settlement engine built by creatEngine: the memo registry       *)
(* (handleMessage and its expiry timers), the outbound settlement          *)
(* (settle, with the pendingTransaction lock) and the inbound              *)
(* reconciliation (handleTransaction).                                     *)
(*                                                                         *)
(* The engine runs on one JavaScript event loop: a callback runs to its    *)
(* next await without interleaving. `running` names the settle call that   *)
(* is inside such a synchronous stretch; every other callback waits for    *)
(* running = NoCall.                                                       *)
(*                                                                         *)
(* Amounts are integers counting units of 10^-AmountPlaces XLM.  Time is   *)
(* `now`, in milliseconds.                                                 *)
(***************************************************************************)
EXTENDS Integers, Sequences, FiniteSets, TLC

----------------------------------------------------------------------------
(* Bounds of the model *)

MaxCalls == 2
MaxTicks == 2
MaxMemos == 2
MaxEvents == 1

----------------------------------------------------------------------------
(* Program constants and pure functions *)

\* decimalPlaces(6, ...): fractional digits kept by settle
DecimalPlaces == 6

\* queued amounts carry one fractional digit more than settle keeps
AmountPlaces == DecimalPlaces + 1

\* 5 * 60000: delay of the cleanup timer, in ms
TTL == 5 * 60000

RECURSIVE Pow10(_)
Pow10(n) == IF n = 0 THEN 1 ELSE 10 * Pow10(n - 1)

\* variant of Quantize that rounds up (BigNumber.ROUND_UP)
QuantizeUp(q) ==
    LET f == Pow10(AmountPlaces - DecimalPlaces)
    IN  ((q + f - 1) \div f) * f
\* queuedAmount.decimalPlaces(6, BigNumber.ROUND_DOWN): rounds towards zero
Quantize(q) ==
    LET f == Pow10(AmountPlaces - DecimalPlaces)
    IN  IF q >= 0 THEN (q \div f) * f ELSE -(((-q) \div f) * f)

\* variant of IsZero without the early return for a zero amount
IsZeroNever(a) == FALSE
\* amount.isZero()
IsZero(a) == a = 0

\* Number.prototype.toString(): the decimal digits of a non-negative integer
RECURSIVE NumberToString(_)
NumberToString(n) ==
    IF n < 10 THEN <<n>> ELSE Append(NumberToString(n \div 10), n % 10)

\* new BigNumber(0)
Zero == 0

Peers == {"peerA", "peerB"}
Calls == 1..MaxCalls
NoCall == 0

\* amounts handed to settle by the routing layer, in units of 10^-AmountPlaces
QueuedAmounts == {0, 3, 25}

\* xlmKeypair.publicKey() and some other ledger account
xlmAddress == "G_SELF"
OtherAddress == "G_OTHER"

----------------------------------------------------------------------------
(* The peer's answers to sendMessage(accountID, {type: 'paymentDetails'}) *)

\* what a response carries: whether it is an object, the type of its
\* xlmAddress field, and its paymentMemo field: absent, or an object whose
\* value field is a number, a string of decimal digits of a value up to
\* 2^32 - 1 ("uint32String"), a string of digits of a larger value
\* ("largeString") or another string ("textString")
Rejected == [kind |-> "rejected", isObject |-> FALSE, xlmAddress |-> "undefined", paymentMemo |-> "absent"]
MemoStrings == {"uint32String", "largeString", "textString"}
Responses ==
    { Rejected }
    \cup [kind : {"response"}, isObject : {FALSE}, xlmAddress : {"undefined"}, paymentMemo : {"absent"}]
    \cup [kind : {"response"}, isObject : {TRUE}, xlmAddress : {"string", "undefined"},
          paymentMemo : {"absent", "numberValue"} \cup MemoStrings]

\* typeof o === 'object' && typeof o.xlmAddress === 'string' &&
\* typeof o.paymentMemo.value === 'string'; reading .value of an absent
\* paymentMemo throws, which the .catch of settle turns into undefined
isPaymentDetails(o) ==
    /\ o.isObject
    /\ o.xlmAddress = "string"
    /\ o.paymentMemo \in MemoStrings

\* sendMessage(...).then(validate).catch(log): the response, or undefined
GotPaymentDetails(r) == r.kind = "response" /\ isPaymentDetails(r)

----------------------------------------------------------------------------
VARIABLES
    now,                   \* Date.now(), ms
    ticks,                 \* clock advances so far
    memos,                 \* the Memo objects handleMessage stored: object i is memos[i]
    incomingPaymentMemos,  \* Map<Memo, string>: Memo object -> accountID
    pendingTimers,         \* Set<NodeJS.Timeout>: one handle per stored Memo object
    armed,                 \* the timers of the runtime that have not fired yet
    pendingTransaction,    \* the lock
    calls,                 \* the settle invocations
    running,               \* the settle call inside a synchronous stretch
    submitCalls,           \* the calls of stellarClient.submitTransaction
    events,                \* the ledger events handed to handleTransaction
    credits,               \* the calls of creditSettlement
    reply,                 \* how the most recent handleMessage call ended
    streaming,             \* the payment stream opened at construction is open
    disconnected           \* disconnect() has been called and has returned

vars == <<now, ticks, memos, incomingPaymentMemos, pendingTimers, armed,
          pendingTransaction, calls, running, submitCalls, events, credits,
          reply, streaming, disconnected>>

\* handleMessage has not been called yet
NoReply == [type |-> "none", outcome |-> "none"]

\* JavaScript's undefined, for a variable holding a transaction
UndefinedTx ==
    [defined |-> FALSE, destination |-> "undefined", amount |-> 0, memo |-> "absent"]

IdleCall ==
    [pc |-> "idle", accountID |-> "peerA", queuedAmount |-> 0, amount |-> 0,
     sentMessage |-> FALSE, response |-> Rejected, loads |-> 0, built |-> UndefinedTx,
     transaction |-> UndefinedTx, tookLock |-> FALSE, caught |-> FALSE,
     ret |-> "none", result |-> 0, exit |-> "none"]

Init ==
    /\ now = 0
    /\ ticks = 0
    /\ memos = << >>
    /\ incomingPaymentMemos = [k \in {} |-> "peerA"]
    /\ pendingTimers = {}
    /\ armed = {}
    /\ pendingTransaction = FALSE
    /\ calls = [c \in Calls |-> IdleCall]
    /\ running = NoCall
    /\ submitCalls = << >>
    /\ events = << >>
    /\ credits = {}
    /\ reply = NoReply
    /\ streaming = TRUE
    /\ disconnected = FALSE

----------------------------------------------------------------------------
(* Map<Memo, string>: keys are Memo objects, compared by identity *)

\* a Memo object: id is its identity (0: an object the engine never stored),
\* value its string value
MemoObject(id, value) == [id |-> id, value |-> value]

\* txResponse.Memo of an event that carries no such field
UndefinedMemo == [id |-> -1, value |-> << >>]

\* the string of a memo no handleMessage call has issued
ForeignValue == <<0, 0>>

MapHas(map, key) == key.id \in DOMAIN map

MapSet(map, key, v) ==
    [k \in DOMAIN map \cup {key.id} |-> IF k = key.id THEN v ELSE map[k]]

MapDelete(map, key) == [k \in DOMAIN map \ {key.id} |-> map[k]]

\* variant of MapGet that compares keys by their string, not by identity
MapGetByValue(map, key) ==
    LET hits == {k \in DOMAIN map : memos[k].value = key.value}
    IN  IF hits = {} THEN [found |-> FALSE, accountID |-> "undefined"]
        ELSE [found |-> TRUE, accountID |-> map[CHOOSE k \in hits : TRUE]]
\* Map.prototype.get: undefined unless the very object is a key
MapGet(map, key) ==
    IF key.id \in DOMAIN map
    THEN [found |-> TRUE, accountID |-> map[key.id]]
    ELSE [found |-> FALSE, accountID |-> "undefined"]

\* the accounts of the live entries whose memo string is the given string
LiveWithValue(value) ==
    {incomingPaymentMemos[k] : k \in {i \in DOMAIN incomingPaymentMemos :
                                        memos[i].value = value}}

\* the accounts that were issued the given memo string less than TTL ago
IssuedWithin(value) ==
    {memos[i].accountID : i \in {j \in 1..Len(memos) :
                                    memos[j].value = value /\ now < memos[j].at + TTL}}

----------------------------------------------------------------------------
(* handleMessage and the cleanup timers *)

\* the message types a peer can send
MessageTypes == {"paymentDetails", "other"}

\* variant of IsPaymentDetailsType that takes every message for a request
IsAnyType(type) == TRUE
\* message.type && message.type === 'paymentDetails'
IsPaymentDetailsType(type) == type = "paymentDetails"

\* handleMessage(accountID, message): a fresh Memo object of Date.now(), stored
\* under its own identity, with a timer that deletes it after TTL
handleMessage(accountID, type) ==
    /\ running = NoCall
    /\ IF IsPaymentDetailsType(type)
       THEN LET paymentMemo == MemoObject(Len(memos) + 1, NumberToString(now))
            IN  /\ Len(memos) < MaxMemos
                /\ IF MapHas(incomingPaymentMemos, paymentMemo)
                   THEN \* throw new Error('Failed to generate new destination tag')
                        /\ reply' = [type |-> type,
                                     outcome |-> "Failed to generate new destination tag"]
                        /\ UNCHANGED <<memos, incomingPaymentMemos, pendingTimers, armed>>
                   ELSE /\ memos' = Append(memos, [value |-> paymentMemo.value,
                                                   accountID |-> accountID, at |-> now])
                        /\ incomingPaymentMemos' =
                               MapSet(incomingPaymentMemos, paymentMemo, accountID)
                        /\ pendingTimers' = pendingTimers \cup {paymentMemo.id}
                        /\ armed' = armed \cup {paymentMemo.id}
                        /\ reply' = [type |-> type, outcome |-> "paymentDetails"]
       ELSE \* throw new Error('Unknown message type')
            /\ reply' = [type |-> type, outcome |-> "Unknown message type"]
            /\ UNCHANGED <<memos, incomingPaymentMemos, pendingTimers, armed>>
    /\ UNCHANGED <<now, ticks, pendingTransaction, calls, running, submitCalls,
                   events, credits, streaming, disconnected>>

\* variant of TimerTarget where every callback reads one variable shared by
\* all handleMessage calls, which holds the Memo object created last
TimerTargetLatest(id) == Len(memos)
\* the Memo object the callback of timer id deletes: paymentMemo is a const of
\* the handleMessage call that armed the timer
TimerTarget(id) == id

\* setTimeout(() => incomingPaymentMemos.delete(paymentMemo), 5 * 60000): the
\* callback runs once, no earlier than TTL after it was scheduled
timerFires(id) ==
    /\ running = NoCall
    /\ id \in armed
    /\ now >= memos[id].at + TTL
    /\ LET target == TimerTarget(id)
       IN  incomingPaymentMemos' =
               MapDelete(incomingPaymentMemos, MemoObject(target, memos[target].value))
    /\ armed' = armed \ {id}
    /\ UNCHANGED <<now, ticks, memos, pendingTimers, pendingTransaction, calls,
                   running, submitCalls, events, credits, reply, streaming, disconnected>>

\* the clock: time passes between callbacks
ClockSteps == {1, TTL - 1}
Tick(d) ==
    /\ running = NoCall
    /\ ticks < MaxTicks
    /\ now' = now + d
    /\ ticks' = ticks + 1
    /\ UNCHANGED <<memos, incomingPaymentMemos, pendingTimers, armed,
                   pendingTransaction, calls, running, submitCalls, events, credits,
                   reply, streaming, disconnected>>

----------------------------------------------------------------------------
(* settle *)

Set(c, r) == calls' = [calls EXCEPT ![c] = r]

\* a call that returns a value
Return(c, r, value, exit) ==
    [r EXCEPT !.pc = "done", !.ret = "value", !.result = value, !.exit = exit]

\* variant of LockTaken that leaves the flag down
LockNotTaken == FALSE
\* pendingTransaction = true
LockTaken == TRUE

\* variant of LockReleased that leaves the flag up
LockKept == TRUE
\* finally { pendingTransaction = false }
LockReleased == FALSE

\* variant of LockAfterReturn that leaves the flag up behind an early return
LockAfterReturnRaised(flag) == TRUE
\* return new BigNumber(0) before the try/finally: the flag is not written
LockAfterReturn(flag) == flag

\* variant of CatchReturn that reports nothing settled
CatchReturnsZero(amount) == Zero
\* catch (err) { ...; return amount }
CatchReturn(amount) == amount

\* settle(accountID, queuedAmount) up to its first await: quantize, return
\* zero for a zero amount, else ask the peer for its payment details
settleStart(c, accountID, queuedAmount) ==
    /\ running = NoCall
    /\ calls[c].pc = "idle"
    /\ \A d \in Calls : d < c => calls[d].pc # "idle"
    /\ LET amount == Quantize(queuedAmount)
           r == [calls[c] EXCEPT !.accountID = accountID,
                                 !.queuedAmount = queuedAmount,
                                 !.amount = amount]
       IN  IF IsZero(amount)
           THEN /\ Set(c, Return(c, r, Zero, "zeroAmount"))
                /\ pendingTransaction' = LockAfterReturn(pendingTransaction)
           ELSE /\ Set(c, [r EXCEPT !.pc = "awaitDetails", !.sentMessage = TRUE])
                /\ UNCHANGED pendingTransaction
    /\ UNCHANGED <<now, ticks, memos, incomingPaymentMemos, pendingTimers, armed,
                   running, submitCalls, events, credits, reply, streaming,
                   disconnected>>

\* the peer's answer arrives: without valid payment details return zero,
\* else call stellarClient.loadAccount
settleDetails(c, response) ==
    /\ running = NoCall
    /\ calls[c].pc = "awaitDetails"
    /\ IF ~GotPaymentDetails(response)
       THEN /\ Set(c, Return(c, [calls[c] EXCEPT !.response = response],
                             Zero, "noDetails"))
            /\ pendingTransaction' = LockAfterReturn(pendingTransaction)
       ELSE /\ Set(c, [calls[c] EXCEPT !.pc = "awaitAccount", !.response = response,
                                       !.loads = @ + 1])
            /\ UNCHANGED pendingTransaction
    /\ UNCHANGED <<now, ticks, memos, incomingPaymentMemos, pendingTimers, armed,
                   running, submitCalls, events, credits, reply, streaming,
                   disconnected>>

\* an await on the ledger client settles.
\* After loadAccount: a rejection leaves settle by an exception; else the
\* transaction is built into a variable of the try block (a build error
\* returns zero), the lock is tested and taken.
\* After submitTransaction: the try block ends without a return statement, or
\* the rejection is caught and the amount returned.
settleLedger(c, ok, buildOk) ==
    /\ running = NoCall
    /\ calls[c].pc \in {"awaitAccount", "awaitSubmit"}
    /\ IF calls[c].pc = "awaitAccount"
       THEN IF ~ok
            THEN /\ Set(c, [calls[c] EXCEPT !.pc = "done", !.ret = "threw",
                                            !.exit = "loadFailed"])
                 /\ UNCHANGED <<pendingTransaction, running>>
            ELSE IF ~buildOk
            THEN /\ Set(c, Return(c, calls[c], Zero, "buildFailed"))
                 /\ pendingTransaction' = LockAfterReturn(pendingTransaction)
                 /\ UNCHANGED running
            ELSE LET r == [calls[c] EXCEPT !.built =
                               [defined |-> TRUE, destination |-> calls[c].accountID,
                                amount |-> calls[c].amount,
                                memo |-> calls[c].response.paymentMemo]]
                 IN  IF pendingTransaction
                     THEN /\ Set(c, Return(c, r, Zero, "busy"))
                          /\ pendingTransaction' = LockAfterReturn(pendingTransaction)
                          /\ UNCHANGED running
                     ELSE /\ pendingTransaction' = LockTaken
                          /\ Set(c, [r EXCEPT !.pc = "locked", !.tookLock = TRUE])
                          /\ running' = c
       ELSE /\ IF ok
               THEN Set(c, [calls[c] EXCEPT !.pc = "finally", !.ret = "undefined",
                                            !.exit = "submitted"])
               ELSE Set(c, [calls[c] EXCEPT !.pc = "finally", !.ret = "value",
                                            !.caught = TRUE,
                                            !.result = CatchReturn(calls[c].amount),
                                            !.exit = "caught"])
            /\ running' = c
            /\ UNCHANGED pendingTransaction
    /\ UNCHANGED <<now, ticks, memos, incomingPaymentMemos, pendingTimers, armed,
                   submitCalls, events, credits, reply, streaming, disconnected>>

\* transaction.sign(xlmKeypair) on the variable declared before the try block:
\* it is undefined, so the call throws and the catch clause returns the amount;
\* a defined transaction would be handed to submitTransaction
settleSign(c) ==
    /\ running = c
    /\ calls[c].pc = "locked"
    /\ IF ~calls[c].transaction.defined
       THEN /\ Set(c, [calls[c] EXCEPT !.pc = "finally", !.ret = "value",
                                       !.caught = TRUE,
                                       !.result = CatchReturn(calls[c].amount),
                                       !.exit = "caught"])
            /\ UNCHANGED <<running, submitCalls>>
       ELSE /\ submitCalls' = Append(submitCalls,
                                     [call |-> c, tx |-> calls[c].transaction])
            /\ Set(c, [calls[c] EXCEPT !.pc = "awaitSubmit"])
            /\ running' = NoCall
    /\ UNCHANGED <<now, ticks, memos, incomingPaymentMemos, pendingTimers, armed,
                   pendingTransaction, events, credits, reply, streaming, disconnected>>

\* finally { pendingTransaction = false }, then the call returns
settleFinally(c) ==
    /\ running = c
    /\ calls[c].pc = "finally"
    /\ pendingTransaction' = LockReleased
    /\ Set(c, [calls[c] EXCEPT !.pc = "done"])
    /\ running' = NoCall
    /\ UNCHANGED <<now, ticks, memos, incomingPaymentMemos, pendingTimers, armed,
                   submitCalls, events, credits, reply, streaming, disconnected>>

----------------------------------------------------------------------------
(* handleTransaction *)

\* the memos a ledger event can carry: none, a memo with the string of an
\* issued memo, a memo with another string; each is an object of the ledger
\* client, never one of the objects handleMessage stored
EventMemos ==
    {UndefinedMemo, MemoObject(0, ForeignValue)}
    \cup {MemoObject(0, memos[i].value) : i \in 1..Len(memos)}

EventAmounts == {0, 25}

\* handleTransaction(txResponse): look the memo up, return if it is unknown,
\* else credit the account with the amount of the event
handleTransactionUpTo(limit, to, amount, memo) ==
    /\ running = NoCall
    /\ streaming
    /\ Len(events) < limit
    /\ events' = Append(events,
                        [to |-> to, amount |-> amount, Memo |-> memo,
                         live |-> LiveWithValue(memo.value),
                         fresh |-> IssuedWithin(memo.value),
                         resolved |-> MapGet(incomingPaymentMemos, memo)])
    /\ LET accountId == MapGet(incomingPaymentMemos, memo)
       IN  IF ~accountId.found
           THEN UNCHANGED credits
           ELSE credits' = credits \cup
                    {[event |-> Len(events) + 1, accountID |-> accountId.accountID,
                      amount |-> amount]}
    /\ UNCHANGED <<now, ticks, memos, incomingPaymentMemos, pendingTimers, armed,
                   pendingTransaction, calls, running, submitCalls,
                   reply, streaming, disconnected>>

handleTransaction(to, amount, memo) == handleTransactionUpTo(MaxEvents, to, amount, memo)

\* a second event after the first
handleTransactionAgain(to, amount, memo) ==
    handleTransactionUpTo(MaxEvents + 1, to, amount, memo)

----------------------------------------------------------------------------
(* disconnect *)

\* async disconnect() { }: the body is empty; the call returns and has
\* written nothing, neither the timers nor the payment stream
disconnect ==
    /\ running = NoCall
    /\ disconnected' = TRUE
    /\ UNCHANGED <<now, ticks, memos, incomingPaymentMemos, pendingTimers, armed,
                   pendingTransaction, calls, running, submitCalls, events, credits,
                   reply, streaming>>

----------------------------------------------------------------------------
\* token issue: handleMessage for every message type, the timers, the clock
IssueNext ==
    \/ \E p \in Peers, t \in MessageTypes : handleMessage(p, t)
    \/ \E id \in 1..MaxMemos : timerFires(id)
    \/ \E d \in ClockSteps : Tick(d)

\* the registry half of the engine: handleMessage, its timers, the clock and
\* handleTransaction.  A message of another type than paymentDetails writes
\* reply only and is left to IssueNext.
RegistryNext ==
    \/ \E p \in Peers : handleMessage(p, "paymentDetails")
    \/ \E id \in 1..MaxMemos : timerFires(id)
    \/ \E d \in ClockSteps : Tick(d)
    \/ \E to \in {xlmAddress, OtherAddress}, a \in EventAmounts, m \in EventMemos :
           handleTransaction(to, a, m)

\* the registry half with one more ledger event
ReplayNext ==
    \/ \E p \in Peers : handleMessage(p, "paymentDetails")
    \/ \E id \in 1..MaxMemos : timerFires(id)
    \/ \E d \in ClockSteps : Tick(d)
    \/ \E to \in {xlmAddress, OtherAddress}, a \in EventAmounts, m \in EventMemos :
           handleTransactionAgain(to, a, m)

\* the registry half with disconnect
LifecycleNext ==
    \/ IssueNext
    \/ \E to \in {xlmAddress, OtherAddress}, a \in EventAmounts, m \in EventMemos :
           handleTransaction(to, a, m)
    \/ disconnect

\* the settlement half: the settle calls and the lock
SettleNext ==
    \/ \E c \in Calls, p \in Peers, q \in QueuedAmounts : settleStart(c, p, q)
    \/ \E c \in Calls, r \in Responses : settleDetails(c, r)
    \/ \E c \in Calls, ok \in BOOLEAN, buildOk \in BOOLEAN : settleLedger(c, ok, buildOk)
    \/ \E c \in Calls : settleSign(c)
    \/ \E c \in Calls : settleFinally(c)

Next == LifecycleNext \/ SettleNext

\* the whole engine
Spec == Init /\ [][Next]_vars

\* The two halves share no variable: settle reads and writes calls, running,
\* pendingTransaction and submitCalls only, the registry half the others.  Each
\* half is checked on its own.
SettleSpec == Init /\ [][SettleNext]_vars
RegistrySpec == Init /\ [][RegistryNext]_vars

\* a step of call c past its start: an awaited promise settles, or the
\* synchronous stretch it opened goes on
settleStep(c) ==
    \/ \E r \in Responses : settleDetails(c, r)
    \/ \E ok \in BOOLEAN, buildOk \in BOOLEAN : settleLedger(c, ok, buildOk)
    \/ settleSign(c)
    \/ settleFinally(c)

\* the settlement half where every awaited collaborator call settles and the
\* event loop runs every continuation that is ready
SettleFairSpec == SettleSpec /\ \A c \in Calls : WF_vars(settleStep(c))

\* handleMessage and the timers alone: handleTransaction writes events and
\* credits only, disconnect writes disconnected only
IssueSpec == Init /\ [][IssueNext]_vars

\* the registry half with disconnect() callable at any time
LifecycleSpec == Init /\ [][LifecycleNext]_vars

\* the registry half handling up to MaxEvents + 1 ledger events
ReplaySpec == Init /\ [][ReplayNext]_vars

----------------------------------------------------------------------------
(* Vocabulary of the properties *)

\* the smallest amount settle keeps, in units of 10^-AmountPlaces
Unit == Pow10(AmountPlaces - DecimalPlaces)

\* s is a truncated towards zero to a multiple of Unit (a >= 0)
IsTruncationOf(s, a) == s % Unit = 0 /\ s <= a /\ a - s < Unit

\* the call is between taking the lock and releasing it
InSubmission(c) == calls[c].pc \in {"locked", "awaitSubmit", "finally"}

\* the call has started and has not returned
Active(c) == calls[c].pc \notin {"idle", "done"}

\* the call has handed a transaction to submitTransaction
Submitted(c) == \E i \in DOMAIN submitCalls : submitCalls[i].call = c

\* the ledger client failed the submission of the call
SubmissionFailed(c) == Submitted(c) /\ calls[c].caught

\* the creditSettlement calls made for event i
CreditsOf(i) == {k \in credits : k.event = i}

\* the event is one handleTransaction has to discard
Discarded(e) ==
    \/ e.to # xlmAddress
    \/ e.amount <= 0
    \/ e.Memo = UndefinedMemo
    \/ e.live = {}

----------------------------------------------------------------------------
(* C1..C4, C9, C10: settle, under SettleSpec *)

C2_LockFlag ==
    /\ pendingTransaction = (Cardinality({c \in Calls : InSubmission(c)}) = 1)
    /\ (\A c \in Calls : ~Active(c)) => ~pendingTransaction

\* a call that took the lock has returned through the catch clause, and the
\* flag is false again
C2_Witness ==
    \E c \in Calls :
        /\ calls[c].pc = "done"
        /\ calls[c].tookLock
        /\ calls[c].caught
        /\ ~pendingTransaction

C4_FailureReturnsAmount ==
    \A c \in Calls :
        (calls[c].pc = "done" /\ calls[c].tookLock /\ calls[c].caught) =>
            /\ calls[c].ret = "value"
            /\ IsTruncationOf(calls[c].result, calls[c].queuedAmount)
            /\ calls[c].result # 0
            /\ pendingTransaction => \E d \in Calls \ {c} : InSubmission(d)

\* a call whose sign/submit step threw has returned its amount, truncated
C4_Witness ==
    \E c \in Calls :
        /\ calls[c].pc = "done"
        /\ calls[c].caught
        /\ calls[c].queuedAmount = 25
        /\ calls[c].result = 20

\* C9: a settle call whose amount quantizes to zero returns zero, has sent no
\* peer message, made no ledger call and not taken the lock.
C9_ZeroAmountDoesNothing ==
    \A c \in Calls :
        (calls[c].pc # "idle" /\ calls[c].queuedAmount < Unit) =>
            /\ calls[c].pc = "done"
            /\ calls[c].ret = "value"
            /\ calls[c].result = 0
            /\ ~calls[c].sentMessage
            /\ calls[c].loads = 0
            /\ ~Submitted(c)
            /\ ~calls[c].tookLock

\* a call with a positive amount below the unit has returned
C9_Witness ==
    \E c \in Calls :
        /\ calls[c].pc = "done"
        /\ calls[c].queuedAmount = 3
        /\ calls[c].exit = "zeroAmount"

----------------------------------------------------------------------------
(* C5..C8: the registry and handleTransaction, under RegistrySpec *)

C6_CreditsLiveToken ==
    \A i \in DOMAIN events :
        ~Discarded(events[i]) =>
            \E P \in events[i].live :
                CreditsOf(i) = {[event |-> i, accountID |-> P,
                                 amount |-> events[i].amount]}

\* C7: no two live entries of the registry carry the same memo string.
C7_LiveTokensDistinct ==
    \A i, j \in DOMAIN incomingPaymentMemos :
        i # j => memos[i].value # memos[j].value

\* C8: a memo string issued to P less than TTL ago resolves to P; one issued
\* to nobody within the last TTL resolves to nothing and yields no credit.
C8_ResolvesUntilExpiry ==
    \A i \in DOMAIN events :
        /\ \A P \in events[i].fresh :
               events[i].resolved = [found |-> TRUE, accountID |-> P]
        /\ events[i].fresh = {} =>
               (~events[i].resolved.found /\ CreditsOf(i) = {})

----------------------------------------------------------------------------
(* C11..C20 *)

\* the shape spec.md asks of a paymentDetails response: a string ledger
\* address and a token that is a numeric string of a value in 0 .. 2^32 - 1
ValidShape(r) ==
    /\ r.kind = "response"
    /\ r.isObject
    /\ r.xlmAddress = "string"
    /\ r.paymentMemo = "uint32String"

\* call c has received the peer's answer (or its failure)
Answered(c) == calls[c].sentMessage /\ calls[c].pc \notin {"idle", "awaitDetails"}

\* C11: a settle call whose paymentDetails response is missing, failed, or
\* not of the valid shape returns zero, never loads the account and never
\* takes the lock.
C11_InvalidDetailsReturnZero ==
    \A c \in Calls :
        (Answered(c) /\ ~ValidShape(calls[c].response)) =>
            /\ calls[c].pc = "done"
            /\ calls[c].ret = "value"
            /\ calls[c].result = Zero
            /\ calls[c].loads = 0
            /\ ~calls[c].tookLock

\* C12: once disconnect() has returned, no expiry timer is pending and the
\* payment stream is closed, so that no later ledger event is handled.
C12_DisconnectReleases ==
    disconnected => (armed = {} /\ pendingTimers = {} /\ ~streaming)

\* the exits of settle taken on a failure before the submission step
FailedBeforeSubmission(c) == calls[c].exit \in {"noDetails", "loadFailed", "buildFailed"}

\* C13: no settle call ends with an exception; a call that ended on a
\* failure before the submission step returned zero.
C13_NeverThrows ==
    \A c \in Calls :
        calls[c].pc = "done" =>
            /\ calls[c].ret # "threw"
            /\ FailedBeforeSubmission(c) =>
                   (calls[c].ret = "value" /\ calls[c].result = Zero)

\* the step is a handleMessage call that can be told from no step at all
MessageHandled == reply' # reply \/ memos' # memos

\* C14: a handleMessage call with a type other than paymentDetails ends with
\* the unknown-message-type error and changes neither the registry nor the
\* timers.
C14_UnknownTypeRejected ==
    [][(MessageHandled /\ reply'.type # "paymentDetails") =>
           /\ reply'.outcome = "Unknown message type"
           /\ UNCHANGED <<memos, incomingPaymentMemos, pendingTimers, armed>>]_vars

\* a message of another type was rejected while an entry and its timer were
\* live
C14_Witness ==
    /\ reply = [type |-> "other", outcome |-> "Unknown message type"]
    /\ DOMAIN incomingPaymentMemos # {}
    /\ armed # {}

\* call c has called stellarClient.loadAccount and awaits its result
LoadingAccount(c) == calls[c].pc = "awaitAccount"

\* C15: a settle call loads the account only while it holds the lock, so no
\* two calls load the account at the same time.
C15_LoadUnderLock ==
    /\ \A c \in Calls : LoadingAccount(c) => (pendingTransaction /\ calls[c].tookLock)
    /\ Cardinality({c \in Calls : LoadingAccount(c)}) <= 1

\* the submitTransaction calls made by call c
SubmissionsOf(c) == {i \in DOMAIN submitCalls : submitCalls[i].call = c}

\* C16: a call that got valid details, built its transaction and took the
\* lock signs the transaction it built and hands it to submitTransaction
\* exactly once; that transaction pays the quantized amount to the peer with
\* the peer's token as memo.
C16_BuiltIsSubmitted ==
    \A c \in Calls :
        calls[c].tookLock =>
            /\ calls[c].transaction = calls[c].built
            /\ calls[c].built.destination = calls[c].accountID
            /\ calls[c].built.amount = Quantize(calls[c].queuedAmount)
            /\ calls[c].built.memo = calls[c].response.paymentMemo
            /\ calls[c].pc = "done" =>
                   /\ Cardinality(SubmissionsOf(c)) = 1
                   /\ \A i \in SubmissionsOf(c) : submitCalls[i].tx = calls[c].built

\* no settle call is between its start and its return, and the lock is free
Quiescent == ~pendingTransaction /\ \A c \in Calls : ~Active(c)

\* C17: when every awaited collaborator call settles, every settle call that
\* was started returns and a lock that is held is released: from every state
\* the engine comes to a state with no call in progress and the lock free.
C17_SettleTerminates == []<>Quiescent

\* two calls took the lock one after the other, both have returned and the
\* lock is free
C17_Witness ==
    /\ ~pendingTransaction
    /\ \E c, d \in Calls :
           /\ c # d
           /\ calls[c].pc = "done" /\ calls[c].tookLock
           /\ calls[d].pc = "done" /\ calls[d].tookLock

C19_TimerRemovesOwnEntry ==
    [][\A i \in DOMAIN incomingPaymentMemos :
           i \notin DOMAIN incomingPaymentMemos' =>
               /\ now >= memos[i].at + TTL
               /\ DOMAIN incomingPaymentMemos' = DOMAIN incomingPaymentMemos \ {i}
               /\ armed' = armed \ {i}]_vars

\* the oldest entry has been removed by its timer while a younger entry,
\* not yet TTL old, is live
C19_Witness ==
    \E i, j \in 1..Len(memos) :
        /\ i \notin DOMAIN incomingPaymentMemos
        /\ j \in DOMAIN incomingPaymentMemos
        /\ now < memos[j].at + TTL

\* events i and j are two events to credit that carry the same token
SameLiveToken(i, j) ==
    /\ i < j
    /\ events[i].Memo = events[j].Memo
    /\ ~Discarded(events[i])
    /\ ~Discarded(events[j])

\* C20: handleTransaction does not write the registry, so that two events
\* carrying the same live token are each credited once, to the same peer.
C20_TokenNotConsumed ==
    /\ [][events' # events =>
              UNCHANGED <<memos, incomingPaymentMemos, pendingTimers, armed>>]_vars
    /\ [](\A i, j \in DOMAIN events :
              SameLiveToken(i, j) =>
                  \E P \in events[i].live \cap events[j].live :
                      /\ CreditsOf(i) = {[event |-> i, accountID |-> P,
                                          amount |-> events[i].amount]}
                      /\ CreditsOf(j) = {[event |-> j, accountID |-> P,
                                          amount |-> events[j].amount]})

----------------------------------------------------------------------------
(* C21 *)

\* C21: pendingTimers holds exactly the handles of the timers that have not
\* fired yet, one for each live entry of the registry.
C21_PendingTimersAreArmed ==
    /\ pendingTimers = armed
    /\ pendingTimers = DOMAIN incomingPaymentMemos

====
